---- MODULE Spec2Model ----
(***************************************************************************)
(* Pickup-Point-Management-System: the PostgreSQL storage layer            *)
(* (package pg_storage) as a state machine over its four tables, together   *)
(* with the clock that stamps the rows.                                     *)
(*                                                                         *)
(* Strings: TLA+ strings are ASCII, so the enum labels of the migrations   *)
(* are written in transliteration:                                         *)
(*   cities        "Moskva" "Sankt-Peterburg" "Kazan"                      *)
(*   product_types "elektronika" "odezhda" "obuv"                          *)
(* UUIDs are written symbolically; the prefix says which class the text    *)
(* belongs to (see IsUUID and IsPgUuid).                                   *)
(***************************************************************************)
EXTENDS Integers, Sequences, FiniteSets, TLC

---------------------------------------------------------------------------
(* Bounds of the model.                                                    *)

\* readings of the database clock are 0..MaxTime
MaxTime == 1
\* rows ever inserted into clients / pvz / receptions / products
MaxClients == 1
MaxPvz == 2
MaxReceptions == 2
MaxProducts == 3

---------------------------------------------------------------------------
(* Values.                                                                 *)

\* SQL NULL (a column left to DEFAULT NULL, a nil *string in PvzInfo)
NULL == "NULL"

\* a nil *time.Time in PvzInfo
NoDate == -1

Moderator == "moderator"
Employee == "employee"

Moscow == "Moskva"
SPB == "Sankt-Peterburg"
Kazan == "Kazan"

\* CREATE TYPE cities AS ENUM (...)
cities == {Moscow, SPB, Kazan}

\* CREATE TYPE product_types AS ENUM (...)
product_types == {"elektronika", "odezhda", "obuv"}

\* what gen_random_uuid() hands out, per table, in order of use
ClientUuids == <<"v4-user-1", "v4-user-2", "v4-user-3">>
PvzUuids == <<"v4-pvz-1", "v4-pvz-2", "v4-pvz-3">>

\* a version-4 UUID that no row carries
StrangerUuid == "v4-stranger"
\* 00000000-0000-0000-0000-000000000000: a uuid for PostgreSQL, but with
\* version digit 0 and variant digit 0
NilUuid == "nil-uuid"
\* the text "invalid-uuid" of the API tests: no uuid at all
InvalidUuid == "invalid-uuid"

Range(s) == {s[i] : i \in DOMAIN s}

\* the texts accepted by the regular expression of IsUUID
IsUUID(str) ==
    str \in Range(ClientUuids) \cup Range(PvzUuids) \cup {StrangerUuid}

\* the texts PostgreSQL accepts as input of type uuid
IsPgUuid(str) == IsUUID(str) \/ str = NilUuid

\* error values; the Go type of the error and its message
NoErr == [type |-> "nil", msg |-> ""]
ReceptionFailed(m) == [type |-> "ReceptionFailed", msg |-> m]
LoginFailed(m) == [type |-> "LoginFailed", msg |-> m]
\* errors.New(m)
ErrorsNew(m) == [type |-> "errorString", msg |-> m]
\* an error reported by the database server
PgError(m) == [type |-> "PgError", msg |-> m]

\* bcrypt: the hash determines the password it verifies
HashPassword(password) == <<"bcrypt", password>>
\* faulty variant of ValidatePassword: every password verifies
ValidatePassword_any(password, hash) == TRUE

ValidatePassword(password, hash) == hash = HashPassword(password)

---------------------------------------------------------------------------
(* State.                                                                  *)

VARIABLES
    clients,      \* table clients
    pvz,          \* table pvz
    receptions,   \* table receptions
    products,     \* table products
    idgen,        \* how many reception / product ids were handed out
    now,          \* the reading of NOW()
    last,         \* the last storage call: arguments, result, tables before
    calls,        \* calls in progress, one per service instance
    http,         \* the last HTTP exchange: request and answer
    serve         \* Server.ListenAndServe: its goroutines and its channel

vars ==
    <<clients, pvz, receptions, products, idgen, now, last, calls, http, serve>>

tables == <<clients, pvz, receptions, products, idgen>>

\* the service instances whose calls may overlap
Instances == {1, 2}

Idle == [pc |-> "idle", op |-> "none", author |-> NULL, pvz |-> NULL,
         arg |-> NULL, err |-> NoErr, row |-> {}]

\* no request was answered yet
NoExchange ==
    [endpoint |-> "none", header |-> <<>>, at |-> 0, status |-> 0,
     store |-> FALSE, body |-> {}]

\* the two http.Server of Server.ListenAndServe
Servers == {"programSrv", "metricsSrv"}

\* errCh := make(chan error, 2)
ErrChCap == 2

\* http.ErrServerClosed
ErrServerClosed == ErrorsNew("http: Server closed")
\* an error of the listener: the port is taken, or Accept fails
OpError(m) == [type |-> "OpError", msg |-> m]
ListenErrors == {OpError("listen"), OpError("accept")}

\* Server.ListenAndServe was entered and has started no goroutine yet.
\* pc is the statement it is at, err its variable err, returned what it
\* handed to main; listen[s] is the goroutine that runs s.ListenAndServe()
\* and sends its error, shutdown[s] the one that runs s.Shutdown;
\* inShutdown[s] is set by s.Shutdown; logged holds the servers whose
\* Shutdown error was logged
NotServing ==
    [pc |-> "goProgram", err |-> NoErr, returned |-> NoErr,
     listen |-> [s \in Servers |-> [pc |-> "none", err |-> NoErr]],
     errCh |-> <<>>,
     shutdown |-> [s \in Servers |-> "none"],
     inShutdown |-> [s \in Servers |-> FALSE],
     logged |-> {}]

Init ==
    /\ clients = {}
    /\ pvz = {}
    /\ receptions = {}
    /\ products = {}
    /\ idgen = [receptions |-> 0, products |-> 0]
    /\ now = 0
    /\ last = [op |-> "none", pvz |-> NULL, author |-> NULL, arg |-> NULL,
               err |-> NoErr, ret |-> {}, receptions |-> {}, products |-> {}]
    /\ calls = [i \in Instances |-> Idle]
    /\ http = NoExchange
    /\ serve = NotServing

\* the record of a finished call; receptions and products are the tables as
\* the call found them
Outcome(op, pvzId, author, arg, err, ret) ==
    [op |-> op, pvz |-> pvzId, author |-> author, arg |-> arg, err |-> err,
     ret |-> ret, receptions |-> receptions, products |-> products]

---------------------------------------------------------------------------
(* Queries.                                                                *)

\* ORDER BY registration_date DESC LIMIT 1: the rows the server may put
\* first; rows with equal registration_date come in no defined order
OrderByDateDescLimit1(rows) ==
    {r \in rows : \A o \in rows : o.registration_date <= r.registration_date}

\* SELECT * FROM receptions WHERE pvz_id = '<uuid>' AND activity = true
\*   ORDER BY registration_date DESC LIMIT 1
SelectOpenReception(uuid) ==
    OrderByDateDescLimit1(
        {r \in receptions : r.pvz_id = uuid /\ r.activity = TRUE})

\* faulty variant of SelectLastProduct: ORDER BY registration_date ASC
SelectLastProduct_asc(receptionId) ==
    {r \in {p \in products : p.reception_id = receptionId} :
        \A o \in products :
            o.reception_id = receptionId
            => r.registration_date <= o.registration_date}

\* select * from products WHERE reception_id = '<id>'
\*   ORDER BY registration_date DESC LIMIT 1
SelectLastProduct(receptionId) ==
    OrderByDateDescLimit1({p \in products : p.reception_id = receptionId})

\* the rows of receptions with pvz_id = uuid
ReceptionsOfPvz(uuid) == {r \in receptions : r.pvz_id = uuid}

\* getRow: the error of a query that may answer any row of rows
getRow(rows) ==
    IF rows = {} THEN ErrorsNew("query returned no rows") ELSE NoErr

\* parseUUID: 32 hexadecimal digits once the dashes are removed
parseUUID(uuid) ==
    IF IsPgUuid(uuid) THEN NoErr ELSE ErrorsNew("is not a valid UUID")

\* the foreign key author_id REFERENCES clients (id)
AuthorKnown(author) == author = "" \/ \E c \in clients : c.id = author

---------------------------------------------------------------------------
(* The clock.                                                              *)

Tick ==
    /\ now < MaxTime
    /\ now' = now + 1
    /\ UNCHANGED <<tables, last, calls>>

---------------------------------------------------------------------------
(* Storage calls, one at a time.                                           *)

CreateUser(email, password, roles) ==
    LET row == [id |-> ClientUuids[Cardinality(clients) + 1],
                email |-> email,
                password_hash |-> HashPassword(password),
                moderator |-> Moderator \in roles,
                employee |-> Employee \in roles]
    IN  IF \E c \in clients : c.email = email
        THEN /\ last' = Outcome("CreateUser", NULL, NULL, email,
                                PgError("unique_violation"), {})
             /\ UNCHANGED <<tables, now, calls>>
        ELSE /\ Cardinality(clients) < MaxClients
             /\ clients' = clients \cup {row}
             /\ last' = Outcome("CreateUser", NULL, NULL, email, NoErr, {row})
             /\ UNCHANGED <<pvz, receptions, products, idgen, now, calls>>

\* the author check of CreatePvz
CreatePvzAuthorErr(author) ==
    IF author = "" THEN NoErr
    ELSE IF ~IsUUID(author) THEN ReceptionFailed("uuid is not valid")
    ELSE IF ~\E c \in clients : c.id = author
        THEN LoginFailed("invalid author")
    ELSE IF ~(CHOOSE c \in clients : c.id = author).moderator
        THEN LoginFailed("user has no permission")
    ELSE NoErr

\* INSERT INTO pvz: what the server refuses
InsertPvzErr(params) ==
    IF params.PvzId # NULL /\ ~IsPgUuid(params.PvzId)
        THEN PgError("invalid input syntax for type uuid")
    ELSE IF params.City \notin cities
        THEN PgError("invalid input value for enum cities")
    ELSE IF \E p \in pvz : p.id = params.PvzId
        THEN PgError("unique_violation")
    ELSE NoErr

GeneratedPvzId ==
    PvzUuids[Cardinality({p \in pvz : p.id \in Range(PvzUuids)}) + 1]

CreatePvz(author, params) ==
    LET err == IF CreatePvzAuthorErr(author) # NoErr
               THEN CreatePvzAuthorErr(author)
               ELSE InsertPvzErr(params)
        row == [id |-> IF params.PvzId # NULL THEN params.PvzId
                       ELSE GeneratedPvzId,
                author_id |-> IF author # "" THEN author ELSE NULL,
                city |-> params.City,
                registration_date |->
                    IF params.RegistrationDate # NoDate
                    THEN params.RegistrationDate ELSE now]
    IN  IF err # NoErr
        THEN /\ last' = Outcome("CreatePvz", params.PvzId, author,
                                params.City, err, {})
             /\ UNCHANGED <<tables, now, calls>>
        ELSE /\ Cardinality(pvz) < MaxPvz
             /\ pvz' = pvz \cup {row}
             /\ last' = Outcome("CreatePvz", row.id, author, params.City,
                                NoErr, {row})
             /\ UNCHANGED <<clients, receptions, products, idgen, now, calls>>

\* faulty variant of checkReception: the query tests activity = false
checkReception_closedRows(pvzId) ==
    IF ~IsUUID(pvzId) THEN ReceptionFailed("uuid is not valid")
    ELSE IF \E r \in receptions : r.pvz_id = pvzId /\ r.activity = FALSE
        THEN ReceptionFailed("opened reception already exists")
    ELSE NoErr

\* checkReception: nil when pvzId has no reception in progress
checkReception(pvzId) ==
    IF ~IsUUID(pvzId) THEN ReceptionFailed("uuid is not valid")
    ELSE IF SelectOpenReception(pvzId) # {}
        THEN ReceptionFailed("opened reception already exists")
    ELSE NoErr

\* faulty variant of InsertReceptionErr: receptions.pvz_id without its
\* foreign key
InsertReceptionErr_noPvzKey(author, pvzId) ==
    IF ~AuthorKnown(author) THEN PgError("foreign_key_violation")
    ELSE NoErr

\* INSERT INTO receptions (author_id, pvz_id): what the server refuses
InsertReceptionErr(author, pvzId) ==
    IF ~AuthorKnown(author) \/ ~\E p \in pvz : p.id = pvzId
        THEN PgError("foreign_key_violation")
    ELSE NoErr

\* the row INSERT INTO receptions ... RETURNING * gives back
NewReception(author, pvzId) ==
    [id |-> idgen.receptions + 1,
     author_id |-> IF author # "" THEN author ELSE NULL,
     pvz_id |-> pvzId,
     activity |-> TRUE,
     registration_date |-> now]

\* faulty variant of OpenReceptionErr: the result of checkReception is dropped
OpenReceptionErr_unchecked(author, pvzId) ==
    IF ~IsUUID(author) \/ ~IsUUID(pvzId)
        THEN ReceptionFailed("uuid is not valid")
    ELSE IF author # "" /\ parseUUID(author) # NoErr THEN parseUUID(author)
    ELSE IF parseUUID(pvzId) # NoErr THEN parseUUID(pvzId)
    ELSE IF ~AuthorKnown(author) \/ ~\E p \in pvz : p.id = pvzId
        THEN PgError("foreign_key_violation")
    ELSE NoErr

\* OpenReception up to its INSERT: the error it returns, if any
OpenReceptionErr(author, pvzId) ==
    IF ~IsUUID(author) \/ ~IsUUID(pvzId)
        THEN ReceptionFailed("uuid is not valid")
    ELSE IF checkReception(pvzId) # NoErr THEN checkReception(pvzId)
    ELSE IF author # "" /\ parseUUID(author) # NoErr THEN parseUUID(author)
    ELSE IF parseUUID(pvzId) # NoErr THEN parseUUID(pvzId)
    ELSE InsertReceptionErr(author, pvzId)

\* faulty variant of OpenReception: the INSERT comes before checkReception,
\* so the row stays when checkReception refuses
OpenReception_insertFirst(author, pvzId) ==
    LET err == OpenReceptionErr(author, pvzId)
        row == NewReception(author, pvzId)
    IN  IF /\ err # NoErr
           /\ err # ReceptionFailed("opened reception already exists")
        THEN /\ last' = Outcome("OpenReception", pvzId, author, NULL, err, {})
             /\ UNCHANGED <<tables, now, calls>>
        ELSE /\ idgen.receptions < MaxReceptions
             /\ receptions' = receptions \cup {row}
             /\ idgen' = [idgen EXCEPT !.receptions = @ + 1]
             /\ last' = Outcome("OpenReception", pvzId, author, NULL, err,
                                IF err = NoErr THEN {row} ELSE {})
             /\ UNCHANGED <<clients, pvz, products, now, calls>>

OpenReception(author, pvzId) ==
    LET err == OpenReceptionErr(author, pvzId)
        row == NewReception(author, pvzId)
    IN  IF err # NoErr
        THEN /\ last' = Outcome("OpenReception", pvzId, author, NULL, err, {})
             /\ UNCHANGED <<tables, now, calls>>
        ELSE /\ idgen.receptions < MaxReceptions
             /\ receptions' = receptions \cup {row}
             /\ idgen' = [idgen EXCEPT !.receptions = @ + 1]
             /\ last' = Outcome("OpenReception", pvzId, author, NULL, NoErr,
                                {row})
             /\ UNCHANGED <<clients, pvz, products, now, calls>>

\* faulty variant of UpdateActivityFalse: delete from receptions where
\* pvz_id = '<uuid>'
UpdateActivityFalse_delete(uuid) ==
    {r \in receptions : r.pvz_id # uuid}

\* faulty variant of UpdateActivityFalse: set activity = not activity
UpdateActivityFalse_toggle(uuid) ==
    {IF r.pvz_id = uuid THEN [r EXCEPT !.activity = ~r.activity] ELSE r :
        r \in receptions}

\* update receptions set activity = false where pvz_id = '<uuid>'
UpdateActivityFalse(uuid) ==
    {IF r.pvz_id = uuid THEN [r EXCEPT !.activity = FALSE] ELSE r :
        r \in receptions}

CloseLastReception(uuid) ==
    LET found == SelectOpenReception(uuid)
        err == IF ~IsUUID(uuid) THEN ReceptionFailed("uuid is not valid")
               ELSE getRow(found)
    IN  IF err # NoErr
        THEN /\ last' = Outcome("CloseLastReception", uuid, NULL, NULL, err,
                                {})
             /\ UNCHANGED <<tables, now, calls>>
        ELSE \E r \in found :
             /\ receptions' = UpdateActivityFalse(uuid)
             /\ last' = Outcome("CloseLastReception", uuid, NULL, NULL, NoErr,
                                {[r EXCEPT !.activity = FALSE]})
             /\ UNCHANGED <<clients, pvz, products, idgen, now, calls>>

\* INSERT INTO products (author_id, reception_id, product_type): what the
\* server refuses
InsertProductErr(author, product) ==
    IF product \notin product_types
        THEN PgError("invalid input value for enum product_types")
    ELSE IF ~AuthorKnown(author) THEN PgError("foreign_key_violation")
    ELSE NoErr

\* faulty variant of NewProduct: reception_id is the first reception of the
\* pickup point, whatever its activity
NewProduct_firstReception(author, receptionId, product) ==
    LET own == CHOOSE r \in receptions : r.id = receptionId
        first == CHOOSE r \in ReceptionsOfPvz(own.pvz_id) :
                     \A o \in ReceptionsOfPvz(own.pvz_id) : r.id <= o.id
    IN  [id |-> idgen.products + 1,
         author_id |-> IF author # "" THEN author ELSE NULL,
         reception_id |-> first.id,
         product_type |-> product,
         registration_date |-> now]

\* the row INSERT INTO products ... RETURNING * gives back
NewProduct(author, receptionId, product) ==
    [id |-> idgen.products + 1,
     author_id |-> IF author # "" THEN author ELSE NULL,
     reception_id |-> receptionId,
     product_type |-> product,
     registration_date |-> now]

\* AddProduct up to its INSERT: the error it returns, if any
AddProductErr(uuid, author, product) ==
    IF ~IsUUID(uuid) THEN ErrorsNew("uuid is not valid")
    ELSE IF getRow(SelectOpenReception(uuid)) # NoErr
        THEN getRow(SelectOpenReception(uuid))
    ELSE IF author # "" /\ parseUUID(author) # NoErr THEN parseUUID(author)
    ELSE InsertProductErr(author, product)

AddProduct(uuid, author, product) ==
    LET found == SelectOpenReception(uuid)
        err == AddProductErr(uuid, author, product)
    IN  IF err # NoErr
        THEN /\ last' = Outcome("AddProduct", uuid, author, product, err, {})
             /\ UNCHANGED <<tables, now, calls>>
        ELSE \E r \in found :
             LET row == NewProduct(author, r.id, product)
             IN  /\ idgen.products < MaxProducts
                 /\ products' = products \cup {row}
                 /\ idgen' = [idgen EXCEPT !.products = @ + 1]
                 /\ last' = Outcome("AddProduct", uuid, author, product,
                                    NoErr, {row})
                 /\ UNCHANGED <<clients, pvz, receptions, now, calls>>

DeleteLastProduct(uuid) ==
    LET found == SelectOpenReception(uuid)
        err == IF ~IsUUID(uuid) THEN ErrorsNew("uuid is not valid")
               ELSE getRow(found)
    IN  IF err # NoErr
        THEN /\ last' = Outcome("DeleteLastProduct", uuid, NULL, NULL, err,
                                {})
             /\ UNCHANGED <<tables, now, calls>>
        ELSE \E r \in found :
             IF getRow(SelectLastProduct(r.id)) # NoErr
             THEN /\ last' = Outcome("DeleteLastProduct", uuid, NULL, NULL,
                                     getRow(SelectLastProduct(r.id)), {})
                  /\ UNCHANGED <<tables, now, calls>>
             ELSE \E row \in SelectLastProduct(r.id) :
                  /\ products' = {p \in products : p.id # row.id}
                  /\ last' = Outcome("DeleteLastProduct", uuid, NULL, NULL,
                                     NoErr, {row})
                  /\ UNCHANGED <<clients, pvz, receptions, idgen, now, calls>>

---------------------------------------------------------------------------
(* The calls of the callers.                                               *)

Emails == {"a@x.io"}
Passwords == {"pw1"}
RoleSets == {{Employee}}

\* caller identities: none (the token of dummyLogin carries the id "") or a
\* registered user
Authors == {""} \cup {c.id : c \in clients}

\* pickup point ids a caller may name: those stored and one never stored
PvzArgs == {p.id : p \in pvz} \cup {StrangerUuid}

PvzParams ==
    [PvzId : {NULL}, RegistrationDate : {NoDate}, City : {Moscow}]

ProductArgs == {"odezhda"}

\* the stored pickup points, for callers that name no other
StoredPvz == {p.id : p \in pvz}

Next ==
    \/ Tick /\ UNCHANGED <<http, serve>>
    \/ \E e \in Emails, pw \in Passwords, rs \in RoleSets :
           CreateUser(e, pw, rs) /\ UNCHANGED <<http, serve>>
    \/ \E params \in PvzParams : CreatePvz("", params)
           /\ UNCHANGED <<http, serve>>
    \/ \E a \in Authors, p \in PvzArgs : OpenReception(a, p)
           /\ UNCHANGED <<http, serve>>
    \/ \E p \in PvzArgs : CloseLastReception(p) /\ UNCHANGED <<http, serve>>
    \/ \E p \in PvzArgs, t \in ProductArgs : AddProduct(p, "", t)
           /\ UNCHANGED <<http, serve>>
    \/ \E p \in PvzArgs : DeleteLastProduct(p) /\ UNCHANGED <<http, serve>>

Spec == Init /\ [][Next]_vars

---------------------------------------------------------------------------
(* Overlapping calls.  Each service instance holds its own connection; a   *)
(* call is a sequence of statements, each sent on its own (no BEGIN, no    *)
(* lock), so statements of different instances interleave.                 *)

\* OpenReception up to the end of checkReception
OpenCheck(i, author, pvzId) ==
    LET err == IF ~IsUUID(author) \/ ~IsUUID(pvzId)
               THEN ReceptionFailed("uuid is not valid")
               ELSE checkReception(pvzId)
    IN  /\ calls[i].pc = "idle"
        /\ calls' = [calls EXCEPT ![i] =
                        [pc |-> IF err = NoErr THEN "insert" ELSE "done",
                         op |-> "OpenReception", author |-> author,
                         pvz |-> pvzId, arg |-> NULL, err |-> err,
                         row |-> {}]]
        /\ UNCHANGED <<tables, now, last>>

\* OpenReception from parseUUID to the end of inserter
OpenInsert(i) ==
    LET c == calls[i]
        err == IF c.author # "" /\ parseUUID(c.author) # NoErr
               THEN parseUUID(c.author)
               ELSE IF parseUUID(c.pvz) # NoErr THEN parseUUID(c.pvz)
               ELSE InsertReceptionErr(c.author, c.pvz)
        row == NewReception(c.author, c.pvz)
    IN  /\ c.pc = "insert"
        /\ IF err # NoErr
           THEN /\ calls' = [calls EXCEPT ![i].pc = "done", ![i].err = err]
                /\ UNCHANGED <<tables, now, last>>
           ELSE /\ idgen.receptions < MaxReceptions
                /\ receptions' = receptions \cup {row}
                /\ idgen' = [idgen EXCEPT !.receptions = @ + 1]
                /\ calls' = [calls EXCEPT ![i].pc = "done", ![i].row = {row}]
                /\ UNCHANGED <<clients, pvz, products, now, last>>

\* the call returns to its caller; the instance takes the next request
Return(i) ==
    /\ calls[i].pc = "done"
    /\ calls' = [calls EXCEPT ![i] = Idle]
    /\ UNCHANGED <<tables, now, last>>

NextConc ==
    \/ Tick /\ UNCHANGED <<http, serve>>
    \/ \E e \in Emails, pw \in Passwords, rs \in RoleSets :
           CreateUser(e, pw, rs) /\ UNCHANGED <<http, serve>>
    \/ \E params \in PvzParams : CreatePvz("", params)
           /\ UNCHANGED <<http, serve>>
    \/ \E i \in Instances, a \in Authors, p \in PvzArgs : OpenCheck(i, a, p)
           /\ UNCHANGED <<http, serve>>
    \/ \E i \in Instances : OpenInsert(i) /\ UNCHANGED <<http, serve>>
    \/ \E i \in Instances : Return(i) /\ UNCHANGED <<http, serve>>
    \/ \E p \in StoredPvz : CloseLastReception(p) /\ UNCHANGED <<http, serve>>

SpecConc == Init /\ [][NextConc]_vars

---------------------------------------------------------------------------
(* Overlapping calls on receptions and products.  CloseLastReception,      *)
(* AddProduct and DeleteLastProduct are sequences of statements as well:   *)
(* the row a SELECT returned is used by a later statement of the call,     *)
(* whatever other calls did in between.                                    *)

\* CloseLastReception up to the end of getRow; with an error the call
\* returns at once
CloseSelect(i, uuid) ==
    LET found == SelectOpenReception(uuid)
        err == IF ~IsUUID(uuid) THEN ReceptionFailed("uuid is not valid")
               ELSE getRow(found)
    IN  /\ calls[i].pc = "idle"
        /\ err = NoErr
        /\ \E r \in found :
              calls' = [calls EXCEPT ![i] =
                  [pc |-> "update", op |-> "CloseLastReception",
                   author |-> NULL, pvz |-> uuid, arg |-> NULL,
                   err |-> NoErr, row |-> {r}]]
        /\ UNCHANGED <<tables, now, last>>

\* CloseLastReception: the UPDATE, and the return
CloseUpdate(i) ==
    LET c == calls[i]
    IN  /\ c.pc = "update"
        /\ receptions' = UpdateActivityFalse(c.pvz)
        /\ calls' = [calls EXCEPT ![i] = Idle]
        /\ UNCHANGED <<clients, pvz, products, idgen, now, last>>

\* AddProduct up to the end of getRow; with an error the call returns at
\* once
AddSelect(i, uuid, author, product) ==
    LET found == SelectOpenReception(uuid)
        err == IF ~IsUUID(uuid) THEN ErrorsNew("uuid is not valid")
               ELSE getRow(found)
    IN  /\ calls[i].pc = "idle"
        /\ err = NoErr
        /\ \E r \in found :
              calls' = [calls EXCEPT ![i] =
                  [pc |-> "insertProduct", op |-> "AddProduct",
                   author |-> author, pvz |-> uuid, arg |-> product,
                   err |-> NoErr, row |-> {r}]]
        /\ UNCHANGED <<tables, now, last>>

\* AddProduct from parseUUID to the end of inserter, and the return;
\* reception_id is the id of the row selected
AddInsert(i) ==
    LET c == calls[i]
        err == IF c.author # "" /\ parseUUID(c.author) # NoErr
               THEN parseUUID(c.author)
               ELSE InsertProductErr(c.author, c.arg)
    IN  /\ c.pc = "insertProduct"
        /\ calls' = [calls EXCEPT ![i] = Idle]
        /\ IF err # NoErr
           THEN UNCHANGED <<tables, now, last>>
           ELSE \E r \in c.row :
                /\ idgen.products < MaxProducts
                /\ products' = products \cup {NewProduct(c.author, r.id, c.arg)}
                /\ idgen' = [idgen EXCEPT !.products = @ + 1]
                /\ UNCHANGED <<clients, pvz, receptions, now, last>>

\* DeleteLastProduct up to the end of the first getRow; with an error the
\* call returns at once
DeleteSelectReception(i, uuid) ==
    LET found == SelectOpenReception(uuid)
        err == IF ~IsUUID(uuid) THEN ErrorsNew("uuid is not valid")
               ELSE getRow(found)
    IN  /\ calls[i].pc = "idle"
        /\ err = NoErr
        /\ \E r \in found :
              calls' = [calls EXCEPT ![i] =
                  [pc |-> "selectProduct", op |-> "DeleteLastProduct",
                   author |-> NULL, pvz |-> uuid, arg |-> NULL,
                   err |-> NoErr, row |-> {r}]]
        /\ UNCHANGED <<tables, now, last>>

\* DeleteLastProduct: the second getRow, on the products of the reception
\* selected; with an error the call returns
DeleteSelectProduct(i) ==
    LET c == calls[i]
    IN  /\ c.pc = "selectProduct"
        /\ \E r \in c.row :
              IF getRow(SelectLastProduct(r.id)) # NoErr
              THEN calls' = [calls EXCEPT ![i] = Idle]
              ELSE \E row \in SelectLastProduct(r.id) :
                   calls' = [calls EXCEPT ![i].pc = "delete",
                                ![i].row = {row}]
        /\ UNCHANGED <<tables, now, last>>

\* DeleteLastProduct: DELETE FROM products WHERE id = '<id>', and the return
DeleteExec(i) ==
    LET c == calls[i]
    IN  /\ c.pc = "delete"
        /\ products' = {p \in products : \A row \in c.row : p.id # row.id}
        /\ calls' = [calls EXCEPT ![i] = Idle]
        /\ UNCHANGED <<clients, pvz, receptions, idgen, now, last>>

\* a request that closes receptions overlaps with requests that add and
\* remove products; the callers are registered users and name stored pickup
\* points
NextRace ==
    \/ Tick /\ UNCHANGED <<http, serve>>
    \/ \E e \in Emails, pw \in Passwords, rs \in RoleSets :
           CreateUser(e, pw, rs) /\ UNCHANGED <<http, serve>>
    \/ \E params \in PvzParams : CreatePvz("", params)
           /\ UNCHANGED <<http, serve>>
    \/ \E c \in clients, p \in StoredPvz : OpenReception(c.id, p)
           /\ UNCHANGED <<http, serve>>
    \/ \E p \in StoredPvz : CloseSelect(1, p) /\ UNCHANGED <<http, serve>>
    \/ CloseUpdate(1) /\ UNCHANGED <<http, serve>>
    \/ \E p \in StoredPvz, t \in ProductArgs : AddSelect(2, p, "", t)
           /\ UNCHANGED <<http, serve>>
    \/ AddInsert(2) /\ UNCHANGED <<http, serve>>
    \/ \E p \in StoredPvz : DeleteSelectReception(2, p)
           /\ UNCHANGED <<http, serve>>
    \/ DeleteSelectProduct(2) /\ UNCHANGED <<http, serve>>
    \/ DeleteExec(2) /\ UNCHANGED <<http, serve>>

SpecRace == Init /\ [][NextRace]_vars

---------------------------------------------------------------------------
(* The storage calls one at a time, with the arguments the handlers pass   *)
(* on unexamined: productsHandler hands over any type string of the        *)
(* request body.                                                           *)

\* type strings of a request body: two labels of product_types, a label that
\* is not one, and the empty string of a body without "type"
TypeArgs == {"odezhda", "obuv", "frukty", ""}

NextArgs ==
    \/ Tick /\ UNCHANGED <<http, serve>>
    \/ \E e \in Emails, pw \in Passwords, rs \in RoleSets :
           CreateUser(e, pw, rs) /\ UNCHANGED <<http, serve>>
    \/ \E params \in PvzParams : CreatePvz("", params)
           /\ UNCHANGED <<http, serve>>
    \/ \E a \in Authors, p \in StoredPvz : OpenReception(a, p)
           /\ UNCHANGED <<http, serve>>
    \/ \E p \in StoredPvz : CloseLastReception(p) /\ UNCHANGED <<http, serve>>
    \/ \E p \in StoredPvz, t \in TypeArgs : AddProduct(p, "", t)
           /\ UNCHANGED <<http, serve>>
    \/ \E p \in StoredPvz : DeleteLastProduct(p) /\ UNCHANGED <<http, serve>>

SpecArgs == Init /\ [][NextArgs]_vars

---------------------------------------------------------------------------
(* The listing queries.  A timestamp text is written <<t>>, t the reading  *)
(* of the clock it names; <<>> is the empty string.                        *)

\* Status of a ReceptionInfo
Active == "in_progress"
Inactive == "close"

\* the input of type timestamp: what the server refuses
TimestampErr(text) ==
    IF Len(text) = 0 THEN PgError("invalid input syntax for type timestamp")
    ELSE NoErr

\* the timestamp a text denotes
Timestamp(text) == text[1]

\* FROM products LEFT JOIN receptions ON products.reception_id =
\* receptions.id LEFT JOIN pvz ON receptions.pvz_id = pvz.id, with the
\* columns of the SELECT list
JoinRows ==
    {LET r == CHOOSE r \in receptions : r.id = p.reception_id
         z == CHOOSE z \in pvz : z.id = r.pvz_id
     IN  [product_id |-> p.id,
          product_type |-> p.product_type,
          product_datetime |-> p.registration_date,
          reception_id |-> p.reception_id,
          receptions_datetime |-> r.registration_date,
          receptions_activity |-> r.activity,
          pvz_id |-> z.id,
          pvz_datetime |-> z.registration_date,
          city |-> z.city] : p \in products}

\* faulty variant of WhereBetween: no WHERE clause
WhereBetween_unfiltered(rows, startDate, endDate) == rows

\* faulty variant of WhereBetween: registration_date < endDate
WhereBetween_endExclusive(rows, startDate, endDate) ==
    {row \in rows : /\ row.product_datetime >= Timestamp(startDate)
                    /\ row.product_datetime < Timestamp(endDate)}

\* WHERE products.registration_date >= '<startDate>'
\*   AND products.registration_date <= '<endDate>'
WhereBetween(rows, startDate, endDate) ==
    {row \in rows : /\ row.product_datetime >= Timestamp(startDate)
                    /\ row.product_datetime <= Timestamp(endDate)}

\* row a sorts strictly before row b under ORDER BY pvz_datetime DESC,
\* receptions_datetime DESC, product_datetime DESC
SortsBefore(a, b) ==
    \/ a.pvz_datetime > b.pvz_datetime
    \/ /\ a.pvz_datetime = b.pvz_datetime
       /\ a.receptions_datetime > b.receptions_datetime
    \/ /\ a.pvz_datetime = b.pvz_datetime
       /\ a.receptions_datetime = b.receptions_datetime
       /\ a.product_datetime > b.product_datetime

\* the sequences that hold every row of rows once
Orderings(rows) ==
    {s \in [1..Cardinality(rows) -> rows] :
        \A i, j \in DOMAIN s : i # j => s[i] # s[j]}

\* faulty variant of OrderBy: the rows in any order
OrderBy_unordered(rows) == Orderings(rows)

\* ORDER BY ...: the orders the server may answer; rows with equal sort keys
\* come in no defined order
OrderBy(rows) ==
    {s \in Orderings(rows) :
        \A i, j \in DOMAIN s : i < j => ~SortsBefore(s[j], s[i])}

\* faulty variant of OffsetLimit: OFFSET limit * page
OffsetLimit_nextPage(s, page, limit) ==
    SubSeq(s, limit * page + 1,
           IF limit * page + limit < Len(s)
           THEN limit * page + limit ELSE Len(s))

\* OFFSET limit*(page-1) LIMIT limit
OffsetLimit(s, page, limit) ==
    SubSeq(s, limit * (page - 1) + 1,
           IF limit * (page - 1) + limit < Len(s)
           THEN limit * (page - 1) + limit ELSE Len(s))

\* the loop of GetPvzInfo over the rows of the answer, from row i on.  pvzVar
\* and rec are the variables pvz and rec of the function (rec = 0: the
\* empty string, no reception id), res the slice built so far.  PvzId of an
\* entry is the value pvz held when the entry was appended.
RECURSIVE GroupRows(_, _, _, _, _)
GroupRows(rows, i, pvzVar, rec, res) ==
    IF i > Len(rows) THEN [res |-> res, pvz |-> pvzVar]
    ELSE
    LET vals == rows[i]
        res1 == IF vals.pvz_id # pvzVar
                THEN Append(res, [PvzId |-> vals.pvz_id,
                                  RegistrationDate |-> vals.pvz_datetime,
                                  City |-> vals.city,
                                  Receptions |-> <<>>])
                ELSE res
        pvz1 == vals.pvz_id
        res2 == IF vals.reception_id # rec
                THEN [res1 EXCEPT ![Len(res1)].Receptions =
                        Append(@, [ReceptionId |-> vals.reception_id,
                                   DateTime |-> vals.receptions_datetime,
                                   PvzId |-> pvz1,
                                   Status |-> IF vals.receptions_activity
                                              THEN Active ELSE Inactive,
                                   Products |-> <<>>])]
                ELSE res1
        rec1 == vals.reception_id
        k == Len(res2[Len(res2)].Receptions)
        res3 == [res2 EXCEPT ![Len(res2)].Receptions[k].Products =
                    Append(@, [ProductId |-> vals.product_id,
                               DateTime |-> vals.product_datetime,
                               ProductType |-> vals.product_type,
                               ReceptionId |-> rec1])]
    IN  GroupRows(rows, i + 1, pvz1, rec1, res3)

\* the slice GetPvzInfo returns for the rows of the answer: every entry
\* holds &pvz, the address of the one variable pvz of the function, so
\* *PvzId of every entry reads what pvz holds at the end of the loop
PvzInfos(rows) ==
    LET g == GroupRows(rows, 1, "", 0, <<>>)
    IN  [n \in DOMAIN g.res |-> [g.res[n] EXCEPT !.PvzId = g.pvz]]

\* faulty variant of GetPvzInfoErr: limit = 0 passes
GetPvzInfoErr_limitZero(page, limit) ==
    IF page <= 0 \/ limit < 0 THEN ErrorsNew("invalid arguments") ELSE NoErr

\* GetPvzInfo: the error of its first test, if any
GetPvzInfoErr(page, limit) ==
    IF page <= 0 \/ limit <= 0 THEN ErrorsNew("invalid arguments") ELSE NoErr

\* GetPvzInfo: the error of s.conn.Query, if any
QueryErr(startDate, endDate) ==
    IF TimestampErr(startDate) # NoErr THEN TimestampErr(startDate)
    ELSE TimestampErr(endDate)

GetPvzInfo(startDate, endDate, page, limit) ==
    LET arg == [startDate |-> startDate, endDate |-> endDate,
                page |-> page, limit |-> limit]
        err == IF GetPvzInfoErr(page, limit) # NoErr
               THEN GetPvzInfoErr(page, limit)
               ELSE QueryErr(startDate, endDate)
    IN  /\ IF err # NoErr
           THEN last' = Outcome("GetPvzInfo", NULL, NULL, arg, err, <<>>)
           ELSE \E s \in OrderBy(WhereBetween(JoinRows, startDate, endDate)) :
                   last' = Outcome("GetPvzInfo", NULL, NULL, arg, NoErr,
                                   PvzInfos(OffsetLimit(s, page, limit)))
        /\ UNCHANGED <<tables, now, calls>>

\* faulty variant of GetOnlyPvzList: only the pickup points with a reception
GetOnlyPvzList_withReceptions ==
    /\ \E s \in Orderings({z \in pvz : ReceptionsOfPvz(z.id) # {}}) :
          last' = Outcome("GetOnlyPvzList", NULL, NULL, NULL, NoErr,
                      [n \in DOMAIN s |->
                          [PvzId |-> s[n].id,
                           RegistrationDate |-> s[n].registration_date,
                           City |-> s[n].city,
                           Receptions |-> <<>>]])
    /\ UNCHANGED <<tables, now, calls>>

\* SELECT * FROM pvz: the rows in no defined order; Receptions stays nil
GetOnlyPvzList ==
    /\ \E s \in Orderings(pvz) :
          last' = Outcome("GetOnlyPvzList", NULL, NULL, NULL, NoErr,
                      [n \in DOMAIN s |->
                          [PvzId |-> s[n].id,
                           RegistrationDate |-> s[n].registration_date,
                           City |-> s[n].city,
                           Receptions |-> <<>>]])
    /\ UNCHANGED <<tables, now, calls>>

\* GetPVZList of the gRPC server: the Pvzs of its response, made of the
\* entries info of GetOnlyPvzList
GetPVZList(info) ==
    [n \in DOMAIN info |->
        [Id |-> info[n].PvzId,
         RegistrationDate |-> info[n].RegistrationDate,
         City |-> info[n].City]]

\* timestamp texts of the callers: every reading of the clock
DateArgs == {<<t>> : t \in 0..MaxTime}

\* <<page, limit>> of the callers: pages of two rows, one page that takes
\* every row
Windows == {<<1, 2>>, <<2, 2>>, <<1, MaxProducts>>}

\* calls GetPvzInfo refuses: page and limit not both positive, and the empty
\* texts of TestReceptionFlow
BadCalls ==
    {<<<<0>>, <<MaxTime>>, 0, 2>>, <<<<0>>, <<MaxTime>>, 1, 0>>,
     <<<<0>>, <<MaxTime>>, -1, -1>>, <<<<>>, <<>>, 1, 10>>}

\* the storage calls one at a time, the listing queries among them; the
\* callers are registered users, name stored pickup points and make the
\* calls of the lifecycle only where these succeed
NextList ==
    \/ Tick /\ UNCHANGED <<http, serve>>
    \/ \E e \in Emails, pw \in Passwords, rs \in RoleSets :
           /\ clients = {}
           /\ CreateUser(e, pw, rs) /\ UNCHANGED <<http, serve>>
    \/ \E params \in PvzParams : CreatePvz("", params)
           /\ UNCHANGED <<http, serve>>
    \/ \E c \in clients, p \in StoredPvz :
           /\ OpenReceptionErr(c.id, p) = NoErr
           /\ OpenReception(c.id, p) /\ UNCHANGED <<http, serve>>
    \/ \E p \in StoredPvz :
           /\ SelectOpenReception(p) # {}
           /\ CloseLastReception(p) /\ UNCHANGED <<http, serve>>
    \/ \E p \in StoredPvz, t \in ProductArgs :
           /\ AddProductErr(p, "", t) = NoErr
           /\ AddProduct(p, "", t) /\ UNCHANGED <<http, serve>>
    \/ \E p \in StoredPvz :
           /\ \E r \in SelectOpenReception(p) : SelectLastProduct(r.id) # {}
           /\ DeleteLastProduct(p) /\ UNCHANGED <<http, serve>>
    \/ \E startDate, endDate \in DateArgs, w \in Windows :
           GetPvzInfo(startDate, endDate, w[1], w[2])
           /\ UNCHANGED <<http, serve>>
    \/ \E c \in BadCalls :
           GetPvzInfo(c[1], c[2], c[3], c[4]) /\ UNCHANGED <<http, serve>>
    \/ GetOnlyPvzList /\ UNCHANGED <<http, serve>>

SpecList == Init /\ [][NextList]_vars

---------------------------------------------------------------------------
(* Tokens.  The clock is read in units of the validity of a token.         *)

\* 12 * time.Hour
TokenLife == 1

\* JWT_SECRET_KEY of the service
secretKey == "JWT_SECRET_KEY"

\* the token Generate signs when the clock reads t
GenerateAt(id, role, t) ==
    [jwt |-> TRUE, alg |-> "HS256", key |-> secretKey,
     id |-> id, role |-> role, iat |-> t, exp |-> t + TokenLife]

Generate(id, role) == GenerateAt(id, role, now)

\* Validate: the error, if any.  jwt.Parse refuses a text that is no JWT, a
\* signing method that is not HMAC, a signature made with another key and
\* an exp that is not in the future
ValidateErr(token) ==
    IF ~token.jwt THEN ErrorsNew("token is malformed")
    ELSE IF token.alg # "HS256" THEN ErrorsNew("unexpected signing method")
    ELSE IF token.key # secretKey THEN ErrorsNew("signature is invalid")
    ELSE IF ~(now < token.exp) THEN ErrorsNew("token is expired")
    ELSE IF token.exp < now
        THEN [type |-> "TokenExpired",
              msg |-> "Token expired. Please login again"]
    ELSE NoErr

\* Validate: the id claim of a token it accepts; the role claim is not read
Validate(token) == token.id

\* faulty variant of authHandler: the error of Validate is dropped
authHandler_unvalidated(header) ==
    IF Len(header) = 0 THEN [status |-> 401, uuid |-> NULL]
    ELSE IF Len(header) # 2 THEN [status |-> 401, uuid |-> NULL]
    ELSE [status |-> 200, uuid |-> Validate(header[2])]

\* authHandler up to the call of the handler it wraps: the status it answers
\* itself (200: none, the handler is called) and the "uuid" of the context.
\* header is the Authorization header split at " ", <<>> when there is none
authHandler(header) ==
    IF Len(header) = 0 THEN [status |-> 401, uuid |-> NULL]
    ELSE IF Len(header) # 2 THEN [status |-> 401, uuid |-> NULL]
    ELSE IF ValidateErr(header[2]) # NoErr THEN [status |-> 401, uuid |-> NULL]
    ELSE [status |-> 200, uuid |-> Validate(header[2])]

\* the answer of a request; store: a call of the storage layer was made;
\* body: the token in the answer, if any
Exchange(endpoint, header, status, store, body) ==
    [endpoint |-> endpoint, header |-> header, at |-> now,
     status |-> status, store |-> store, body |-> body]

---------------------------------------------------------------------------
(* The HTTP handlers.  A request is answered in one step: authHandler, the *)
(* handler it wraps and the storage call of the handler.                   *)

\* faulty variant of LoginUserErr: an unknown email has a message of its own
LoginUserErr_unknownEmail(email, password) ==
    IF ~\E c \in clients : c.email = email
        THEN LoginFailed("invalid email")
    ELSE IF ~ValidatePassword(password,
                (CHOOSE c \in clients : c.email = email).password_hash)
        THEN LoginFailed("invalid email or password")
    ELSE NoErr

\* LoginUser: the error it returns, if any
LoginUserErr(email, password) ==
    IF ~\E c \in clients : c.email = email
        THEN LoginFailed("invalid email or password")
    ELSE IF ~ValidatePassword(password,
                (CHOOSE c \in clients : c.email = email).password_hash)
        THEN LoginFailed("invalid email or password")
    ELSE NoErr

LoginUser(email, password) ==
    /\ last' = Outcome("LoginUser", NULL, NULL, email,
                       LoginUserErr(email, password),
                       IF LoginUserErr(email, password) = NoErr
                       THEN {c \in clients : c.email = email} ELSE {})
    /\ UNCHANGED <<tables, now, calls>>

\* Roles[0] of the UserInfo of a row of clients
FirstRole(c) == IF c.moderator THEN Moderator ELSE Employee

\* a request that is answered without a call of the storage layer
Answer(endpoint, header, status, body) ==
    /\ http' = Exchange(endpoint, header, status, FALSE, body)
    /\ UNCHANGED <<tables, now, last, calls>>

dummyLoginHandler(role) ==
    IF role # "moderator" /\ role # "employee"
    THEN Answer("dummyLogin", <<>>, 400, {})
    ELSE Answer("dummyLogin", <<>>, 200, {Generate("", role)})

registerHandler(email, password, role) ==
    IF email = "" \/ password = ""
       \/ (role # "moderator" /\ role # "employee")
    THEN Answer("register", <<>>, 400, {})
    ELSE /\ CreateUser(email, password, {role})
         /\ http' = Exchange("register", <<>>,
                              IF last'.err # NoErr THEN 400 ELSE 201,
                              TRUE, {})

loginHandler(email, password) ==
    IF email = "" \/ password = ""
    THEN Answer("login", <<>>, 400, {})
    ELSE /\ LoginUser(email, password)
         /\ http' = Exchange("login", <<>>,
                IF last'.err # NoErr THEN 401 ELSE 200, TRUE,
                {Generate(c.id, FirstRole(c)) : c \in last'.ret})

\* faulty variant of pvzPostHandler: the city goes to the store unchecked
pvzPostHandler_uncheckedCity(header, body) ==
    LET auth == authHandler(header)
        meow == [PvzId |-> IF body.Id # "" THEN body.Id ELSE NULL,
                 RegistrationDate |-> body.RegistrationDate,
                 City |-> body.City]
    IN  IF auth.status # 200
        THEN Answer("POST /pvz", header, auth.status, {})
        ELSE IF ~body.json
        THEN Answer("POST /pvz", header, 400, {})
        ELSE /\ CreatePvz(auth.uuid, meow)
             /\ http' = Exchange("POST /pvz", header,
                                  IF last'.err # NoErr THEN 403 ELSE 201,
                                  TRUE, {})

\* body: [json, Id, RegistrationDate, City]; json is false for a body that
\* json.Unmarshal refuses
pvzPostHandler(header, body) ==
    LET auth == authHandler(header)
        meow == [PvzId |-> IF body.Id # "" THEN body.Id ELSE NULL,
                 RegistrationDate |-> body.RegistrationDate,
                 City |-> body.City]
    IN  IF auth.status # 200
        THEN Answer("POST /pvz", header, auth.status, {})
        ELSE IF ~body.json \/ body.City \notin cities
        THEN Answer("POST /pvz", header, 400, {})
        ELSE /\ CreatePvz(auth.uuid, meow)
             /\ http' = Exchange("POST /pvz", header,
                                  IF last'.err # NoErr THEN 403 ELSE 201,
                                  TRUE, {})

\* start and end are the texts of startDate and endDate in the query string,
\* page and limit its numbers.  An empty text is replaced: start by the text
\* of time.Time{}, which is no later than any reading of the clock, end by
\* the text of the last second of the year 9999, which is no earlier
pvzGetHandler(header, start, end, page, limit) ==
    LET auth == authHandler(header)
        startDate == IF start = <<>> THEN <<0>> ELSE start
        endDate == IF end = <<>> THEN <<MaxTime>> ELSE end
    IN  IF auth.status # 200
        THEN Answer("GET /pvz", header, auth.status, {})
        ELSE /\ GetPvzInfo(startDate, endDate, page, limit)
             /\ http' = Exchange("GET /pvz", header,
                            IF last'.err # NoErr THEN 400 ELSE 200, TRUE,
                            IF last'.err # NoErr THEN {}
                            ELSE {[json |-> last'.ret]})

closeLastReceptionHandler(header, PvzId) ==
    LET auth == authHandler(header)
    IN  IF auth.status # 200
        THEN Answer("close_last_reception", header, auth.status, {})
        ELSE /\ CloseLastReception(PvzId)
             /\ http' = Exchange("close_last_reception", header,
                                  IF last'.err # NoErr THEN 400 ELSE 200,
                                  TRUE, {})

deleteLastProductHandler(header, PvzId) ==
    LET auth == authHandler(header)
    IN  IF auth.status # 200
        THEN Answer("delete_last_product", header, auth.status, {})
        ELSE /\ DeleteLastProduct(PvzId)
             /\ http' = Exchange("delete_last_product", header,
                                  IF last'.err # NoErr THEN 400 ELSE 200,
                                  TRUE, {})

\* body: [json, PvzId]
receptionsHandler(header, body) ==
    LET auth == authHandler(header)
    IN  IF auth.status # 200
        THEN Answer("receptions", header, auth.status, {})
        ELSE IF ~body.json
        THEN Answer("receptions", header, 400, {})
        ELSE /\ OpenReception(auth.uuid, body.PvzId)
             /\ http' = Exchange("receptions", header,
                                  IF last'.err # NoErr THEN 400 ELSE 201,
                                  TRUE, {})

\* body: [json, PvzId, Type]; the test of PvzId and Type has no effect
productsHandler(header, body) ==
    LET auth == authHandler(header)
    IN  IF auth.status # 200
        THEN Answer("products", header, auth.status, {})
        ELSE IF ~body.json
        THEN Answer("products", header, 400, {})
        ELSE /\ AddProduct(body.PvzId, auth.uuid, body.Type)
             /\ http' = Exchange("products", header,
                                  IF last'.err # NoErr THEN 400 ELSE 201,
                                  TRUE, {})

---------------------------------------------------------------------------
(* The requests of the clients.  The service keeps no record of the tokens *)
(* it signed, so a client may hold any token dummyLogin signed up to now   *)
(* and the token login signs now for a registered user.                    *)

DummyTokens ==
    {GenerateAt("", role, t) : role \in {Moderator, Employee}, t \in 0..now}

LoginTokens == {Generate(c.id, FirstRole(c)) : c \in clients}

\* tokens Validate accepts: signed by the service and not expired
ValidTokens == {tok \in DummyTokens \cup LoginTokens : now < tok.exp}

\* tokens signed by the service whose exp has passed
ExpiredTokens == {tok \in DummyTokens \cup LoginTokens : ~(now < tok.exp)}

\* tokens not signed by the service: a text that is no JWT, a token signed
\* with a guessed key
InvalidTokens ==
    {[GenerateAt("", Moderator, now) EXCEPT !.jwt = FALSE],
     [GenerateAt("", Moderator, now) EXCEPT !.key = "guess"]}

\* Authorization headers with a token in second place
TokenHeaders(tokens) == {<<"Bearer", tok>> : tok \in tokens}

\* Authorization headers that do not split in two at " "
MalformedHeaders ==
    {<<"Bearer">>}
    \cup {<<"Bearer", GenerateAt("", Moderator, now), "x">>}

\* <<>>: a request without Authorization header
Headers ==
    {<<>>} \cup MalformedHeaders
    \cup TokenHeaders(InvalidTokens \cup ExpiredTokens \cup ValidTokens)

RoleArgs == {"moderator", "employee", "admin"}

PvzBodies ==
    [json : {TRUE}, Id : {""}, RegistrationDate : {NoDate},
     City : {Moscow, "Tomsk", ""}]
    \cup [json : {FALSE}, Id : {""}, RegistrationDate : {NoDate}, City : {""}]

\* the clients work at the pickup point stored first
FirstPvz == StoredPvz \cap {PvzUuids[1]}

ReceptionBodies ==
    [json : {TRUE}, PvzId : FirstPvz] \cup [json : {FALSE}, PvzId : {""}]

ProductBodies ==
    [json : {TRUE}, PvzId : FirstPvz, Type : ProductArgs]
    \cup [json : {FALSE}, PvzId : {""}, Type : {""}]

PageArgs == {0, 1}
LimitArgs == {10}

\* clients that hold tokens Validate accepts and send bodies json.Unmarshal
\* accepts, but for POST /pvz, where any body is sent
NextHttp ==
    \/ \E role \in {Moderator, Employee} : dummyLoginHandler(role)
           /\ UNCHANGED serve
    \/ \E e \in Emails, pw \in Passwords, role \in {Moderator, Employee} :
           registerHandler(e, pw, role)
           /\ UNCHANGED serve
    \/ \E e \in Emails, pw \in Passwords : loginHandler(e, pw)
           /\ UNCHANGED serve
    \/ \E h \in TokenHeaders(ValidTokens), body \in PvzBodies :
           pvzPostHandler(h, body)
           /\ UNCHANGED serve
    \/ \E h \in TokenHeaders(ValidTokens), p \in FirstPvz :
           closeLastReceptionHandler(h, p)
           /\ UNCHANGED serve
    \/ \E h \in TokenHeaders(ValidTokens), p \in FirstPvz :
           deleteLastProductHandler(h, p)
           /\ UNCHANGED serve
    \/ \E h \in TokenHeaders(ValidTokens), p \in FirstPvz :
           receptionsHandler(h, [json |-> TRUE, PvzId |-> p])
           /\ UNCHANGED serve
    \/ \E h \in TokenHeaders(ValidTokens), p \in FirstPvz,
          t \in ProductArgs :
           productsHandler(h, [json |-> TRUE, PvzId |-> p, Type |-> t])
           /\ UNCHANGED serve

SpecHttp == Init /\ [][NextHttp]_vars

\* clients without account, with any Authorization header or none, while
\* the clock advances
NextAuth ==
    \/ Tick /\ UNCHANGED <<http, serve>>
    \/ \E role \in RoleArgs : dummyLoginHandler(role)
           /\ UNCHANGED serve
    \/ \E h \in Headers, body \in PvzBodies : pvzPostHandler(h, body)
           /\ UNCHANGED serve
    \/ \E h \in Headers, page \in PageArgs, limit \in LimitArgs :
           pvzGetHandler(h, <<>>, <<>>, page, limit)
           /\ UNCHANGED serve
    \/ \E h \in Headers, p \in StoredPvz : closeLastReceptionHandler(h, p)
           /\ UNCHANGED serve
    \/ \E h \in Headers, p \in StoredPvz : deleteLastProductHandler(h, p)
           /\ UNCHANGED serve
    \/ \E h \in Headers, body \in ReceptionBodies :
           receptionsHandler(h, body)
           /\ UNCHANGED serve
    \/ \E h \in Headers, body \in ProductBodies : productsHandler(h, body)
           /\ UNCHANGED serve

SpecAuth == Init /\ [][NextAuth]_vars

---------------------------------------------------------------------------
(* The accounts.  Registration and login at the storage layer, with the    *)
(* arguments registerHandler and loginHandler pass on, and CreatePvz in    *)
(* the name of an account.                                                 *)

UserEmails == {"a@x.io", "b@x.io"}
UserPasswords == {"pw1", "pw2"}
UserRoleSets == {{Employee}, {Moderator}}

NextUsers ==
    \/ Tick /\ UNCHANGED <<http, serve>>
    \/ \E e \in UserEmails, pw \in UserPasswords, rs \in UserRoleSets :
           CreateUser(e, pw, rs) /\ UNCHANGED <<http, serve>>
    \/ \E e \in UserEmails, pw \in UserPasswords :
           LoginUser(e, pw) /\ UNCHANGED <<http, serve>>
    \/ \E c \in clients, params \in PvzParams :
           CreatePvz(c.id, params) /\ UNCHANGED <<http, serve>>

SpecUsers == Init /\ [][NextUsers]_vars

---------------------------------------------------------------------------
(* Two requests that remove the last product of the same pickup point      *)
(* overlap: each runs the three statements of DeleteLastProduct on its     *)
(* own, in any interleaving with the statements of the other.  Products    *)
(* are added while no removal is in progress.                              *)

NextDelete ==
    \/ Tick /\ UNCHANGED <<http, serve>>
    \/ \E e \in Emails, pw \in Passwords, rs \in RoleSets :
           CreateUser(e, pw, rs) /\ UNCHANGED <<http, serve>>
    \/ \E params \in PvzParams : CreatePvz("", params)
           /\ UNCHANGED <<http, serve>>
    \/ \E c \in clients, p \in StoredPvz : OpenReception(c.id, p)
           /\ UNCHANGED <<http, serve>>
    \/ \E p \in StoredPvz, t \in ProductArgs :
           /\ \A i \in Instances : calls[i].pc = "idle"
           /\ AddProduct(p, "", t) /\ UNCHANGED <<http, serve>>
    \/ \E i \in Instances, p \in StoredPvz :
           DeleteSelectReception(i, p) /\ UNCHANGED <<http, serve>>
    \/ \E i \in Instances : DeleteSelectProduct(i) /\ UNCHANGED <<http, serve>>
    \/ \E i \in Instances : DeleteExec(i) /\ UNCHANGED <<http, serve>>

SpecDelete == Init /\ [][NextDelete]_vars

---------------------------------------------------------------------------
(* Pickup points whose id and date the caller supplies, as the API tests   *)
(* do, and receptions opened at them by a registered user.                 *)

\* ids a caller supplies: none, a version-4 UUID, and a uuid of PostgreSQL
\* that the regular expression of IsUUID does not match, like the
\* 11111111-1111-1111-1111-111111111111 of the API tests
SuppliedIds == {NULL, StrangerUuid, NilUuid}

SuppliedParams ==
    [PvzId : SuppliedIds, RegistrationDate : {NoDate, 0},
     City : {Moscow, "Tomsk"}]

NextPvz ==
    \/ Tick /\ UNCHANGED <<http, serve>>
    \/ \E rs \in UserRoleSets :
           CreateUser("a@x.io", "pw1", rs) /\ UNCHANGED <<http, serve>>
    \/ \E a \in Authors, params \in SuppliedParams :
           CreatePvz(a, params) /\ UNCHANGED <<http, serve>>
    \/ \E c \in clients, p \in StoredPvz :
           OpenReception(c.id, p) /\ UNCHANGED <<http, serve>>
    \/ \E p \in StoredPvz : CloseLastReception(p) /\ UNCHANGED <<http, serve>>

SpecPvz == Init /\ [][NextPvz]_vars

---------------------------------------------------------------------------
(* Server.ListenAndServe and the call of it in main: the goroutines of the *)
(* two listeners, the channel of their errors, the goroutines that shut    *)
(* the servers down.  No request is served meanwhile.                      *)

store == <<tables, now, last, calls, http>>

\* logger.Fatal has not ended the process
Running == serve.pc # "exit"

\* go func() { errCh <- s.ListenAndServe() }(), for the program server and
\* then for the metrics server
GoListen(s) ==
    /\ serve.pc = IF s = "programSrv" THEN "goProgram" ELSE "goMetrics"
    /\ serve' = [serve EXCEPT
                    !.pc = IF s = "programSrv" THEN "goMetrics"
                           ELSE "receive",
                    !.listen[s].pc = "serve"]
    /\ UNCHANGED store

\* s.ListenAndServe() returns: with an error of its listener, or with
\* ErrServerClosed once s.Shutdown was called
ServeReturn(s, e) ==
    /\ Running
    /\ serve.listen[s].pc = "serve"
    /\ (e = ErrServerClosed) <=> serve.inShutdown[s]
    /\ serve' = [serve EXCEPT !.listen[s] = [pc |-> "send", err |-> e]]
    /\ UNCHANGED store

\* faulty variant of Send: the send on a channel without buffer, which
\* waits for the receiver
Send_unbuffered(s) ==
    /\ Running
    /\ serve.listen[s].pc = "send"
    /\ serve.pc = "receive" /\ serve.errCh = <<>>
    /\ serve' = [serve EXCEPT
                    !.errCh = Append(@, serve.listen[s].err),
                    !.listen[s].pc = "done"]
    /\ UNCHANGED store

\* errCh <- err: waits while the buffer is full
Send(s) ==
    /\ Running
    /\ serve.listen[s].pc = "send"
    /\ Len(serve.errCh) < ErrChCap
    /\ serve' = [serve EXCEPT
                    !.errCh = Append(@, serve.listen[s].err),
                    !.listen[s].pc = "done"]
    /\ UNCHANGED store

\* err := <-errCh: waits while the channel is empty
Receive ==
    /\ serve.pc = "receive"
    /\ serve.errCh # <<>>
    /\ serve' = [serve EXCEPT
                    !.err = Head(serve.errCh),
                    !.errCh = Tail(@),
                    !.pc = "goShutdownProgram"]
    /\ UNCHANGED store

\* go func() { err := s.Shutdown(context.Background()) ... }(), for the
\* program server and then for the metrics server
GoShutdown(s) ==
    /\ serve.pc = IF s = "programSrv" THEN "goShutdownProgram"
                  ELSE "goShutdownMetrics"
    /\ serve' = [serve EXCEPT
                    !.pc = IF s = "programSrv" THEN "goShutdownMetrics"
                           ELSE "return",
                    !.shutdown[s] = "call"]
    /\ UNCHANGED store

\* return err
ReturnErr ==
    /\ serve.pc = "return"
    /\ serve' = [serve EXCEPT !.pc = "returned", !.returned = serve.err]
    /\ UNCHANGED store

\* s.Shutdown is entered: the server stops listening
Shutdown(s) ==
    /\ Running
    /\ serve.shutdown[s] = "call"
    /\ serve' = [serve EXCEPT !.shutdown[s] = "wait",
                              !.inShutdown[s] = TRUE]
    /\ UNCHANGED store

\* s.Shutdown returns, with the error of closing the listener or nil; the
\* error is logged
ShutdownReturn(s, e) ==
    /\ Running
    /\ serve.shutdown[s] = "wait"
    /\ serve' = [serve EXCEPT
                    !.shutdown[s] = "done",
                    !.logged = IF e # NoErr THEN @ \cup {s} ELSE @]
    /\ UNCHANGED store

\* main: if err := h.ListenAndServe(...); err != nil { logger.Fatal(...) },
\* which ends the process and every goroutine with it
Fatal ==
    /\ serve.pc = "returned"
    /\ serve.returned # NoErr
    /\ serve' = [serve EXCEPT !.pc = "exit"]
    /\ UNCHANGED store

NextServe ==
    \/ \E s \in Servers : GoListen(s)
    \/ \E s \in Servers, e \in ListenErrors \cup {ErrServerClosed} :
           ServeReturn(s, e)
    \/ \E s \in Servers : Send(s)
    \/ Receive
    \/ \E s \in Servers : GoShutdown(s)
    \/ ReturnErr
    \/ \E s \in Servers : Shutdown(s)
    \/ \E s \in Servers, e \in {NoErr, OpError("close")} :
           ShutdownReturn(s, e)
    \/ Fatal

SpecServe == Init /\ [][NextServe]_vars

\* the Go scheduler runs every goroutine that can take a step
SpecServeFair ==
    /\ SpecServe
    /\ \A s \in Servers : WF_vars(GoListen(s))
    /\ \A s \in Servers : WF_vars(Send(s))
    /\ WF_vars(Receive)
    /\ \A s \in Servers : WF_vars(GoShutdown(s))
    /\ WF_vars(ReturnErr)
    /\ WF_vars(Fatal)

---------------------------------------------------------------------------
(* Properties.                                                             *)

\* receptions of pickup point p that are in progress, in the table recs
OpenOf(recs, p) == {r \in recs : r.pvz_id = p /\ r.activity = TRUE}

ReceptionsOf(recs, p) == {r \in recs : r.pvz_id = p}

ProductsOf(prods, receptionId) ==
    {x \in prods : x.reception_id = receptionId}

\* the products, in prods, of the receptions in progress of pickup point p
OpenProducts(recs, prods, p) ==
    {x \in prods : \E r \in OpenOf(recs, p) : x.reception_id = r.id}

\* C1: with the calls executed one at a time, every pickup point has at
\* most one reception that is in progress (activity = true).
C1_AtMostOneOpenReception ==
    \A p \in pvz : Cardinality(OpenOf(receptions, p.id)) <= 1

\* a pickup point holds a closed and an open reception, and the last call
\* was an OpenReception on it
C1_Witness ==
    /\ last.op = "OpenReception"
    /\ Cardinality(OpenOf(receptions, last.pvz)) = 1
    /\ \E r \in ReceptionsOf(receptions, last.pvz) : r.activity = FALSE

\* C2: when OpenReception calls of two service instances overlap on one
\* pickup point, the pickup point never holds two receptions in progress
\* and at most one of two overlapping calls returns a reception.
C2_ConcurrentOpenOneWinner ==
    /\ \A p \in pvz : Cardinality(OpenOf(receptions, p.id)) <= 1
    /\ \A i, j \in Instances :
          (/\ i # j
           /\ calls[i].op = "OpenReception" /\ calls[j].op = "OpenReception"
           /\ calls[i].pvz = calls[j].pvz
           /\ calls[i].pc = "done" /\ calls[i].err = NoErr)
          => ~(calls[j].pc = "done" /\ calls[j].err = NoErr)

C4_ClosedIsTerminal ==
    [][/\ \A r \in receptions :
            \E n \in receptions' :
               /\ n.id = r.id
               /\ r.activity = FALSE => n.activity = FALSE
               /\ n.activity # r.activity
                  => /\ last'.op = "CloseLastReception"
                     /\ last'.err = NoErr
                     /\ last'.pvz = r.pvz_id
       /\ \A n \in receptions' :
            (~\E r \in receptions : r.id = n.id) => n.activity = TRUE]_vars

\* a reception was opened on a pickup point that holds a closed reception,
\* which is still closed
C4_Witness ==
    /\ last.op = "OpenReception"
    /\ last.err = NoErr
    /\ \E r \in ReceptionsOf(last.receptions, last.pvz) :
          /\ r.activity = FALSE
          /\ r \in receptions

\* C5: DeleteLastProduct on a pickup point whose reception in progress holds
\* a product succeeds and removes exactly one product: one of that
\* reception, with the latest registration_date among its products; every
\* other product stays.
C5_DeleteRemovesLatest ==
    (/\ last.op = "DeleteLastProduct"
     /\ OpenProducts(last.receptions, last.products, last.pvz) # {})
    => /\ last.err = NoErr
       /\ \E row \in OpenProducts(last.receptions, last.products, last.pvz) :
             /\ last.ret = {row}
             /\ products = last.products \ {row}
             /\ \A o \in ProductsOf(last.products, row.reception_id) :
                   o.registration_date <= row.registration_date

\* a product was removed from a reception that held an older product too,
\* while another reception holds a product
C5_Witness ==
    /\ last.op = "DeleteLastProduct"
    /\ last.err = NoErr
    /\ \E row \in last.ret :
          /\ \E o \in ProductsOf(last.products, row.reception_id) :
                o.registration_date < row.registration_date
          /\ \E o \in products : o.reception_id # row.reception_id

\* C6: products leave a reception in the reverse order of their insertion
\* (ids are handed out in insertion order): a successful DeleteLastProduct
\* removes the product inserted last into the reception in progress and
\* nothing else, and DeleteLastProduct on a reception without products fails.
C6_LifoDrain ==
    last.op = "DeleteLastProduct"
    => LET before ==
               OpenProducts(last.receptions, last.products, last.pvz)
       IN  IF before = {}
           THEN last.err # NoErr /\ products = last.products
           ELSE /\ last.err = NoErr
                /\ \E row \in before :
                      /\ \A o \in before : o.id <= row.id
                      /\ products = last.products \ {row}

\* C7: a successful AddProduct on a pickup point, followed by
\* DeleteLastProduct on the same pickup point as the next call, leaves the
\* table of products as it was before the AddProduct.
C7_AddDeleteRoundTrip ==
    [][(/\ last.op = "AddProduct"
        /\ last.err = NoErr
        /\ last'.op = "DeleteLastProduct"
        /\ last'.pvz = last.pvz)
       => (last'.err = NoErr /\ products' = last.products)]_vars

\* C8: among the products of the reception that share the registration_date
\* of the product removed, the product removed is the one inserted last.
C8_TieBrokenByInsertionOrder ==
    (last.op = "DeleteLastProduct" /\ last.err = NoErr)
    => \A row \in last.ret :
          \A o \in ProductsOf(last.products, row.reception_id) :
             o.registration_date = row.registration_date => o.id <= row.id

\* the error kinds of the design, as the errors of the storage layer may
\* realise them: a refused business rule is a ReceptionFailed, a row that
\* does not exist is the "query returned no rows" of getRow
ErrorKind(err) ==
    CASE err = NoErr -> "none"
      [] err.msg = "uuid is not valid" -> "ValidationError"
      [] err.type = "ReceptionFailed" -> "ConflictError"
      [] err.type = "LoginFailed" -> "AuthError"
      [] err = ErrorsNew("query returned no rows") -> "NotFoundError"
      [] err = ErrorsNew("invalid arguments") -> "ValidationError"
      [] OTHER -> "DatabaseError"

\* C9: CloseLastReception on a stored pickup point that never had a
\* reception fails with NotFoundError; on a pickup point whose receptions
\* are all closed it fails with ConflictError; no reception changes.
C9_CloseErrorKinds ==
    (last.op = "CloseLastReception" /\ \E p \in pvz : p.id = last.pvz)
    => /\ ReceptionsOf(last.receptions, last.pvz) = {}
          => /\ ErrorKind(last.err) = "NotFoundError"
             /\ receptions = last.receptions
       /\ (/\ ReceptionsOf(last.receptions, last.pvz) # {}
           /\ OpenOf(last.receptions, last.pvz) = {})
          => /\ ErrorKind(last.err) = "ConflictError"
             /\ receptions = last.receptions

\* C10: DeleteLastProduct on a stored pickup point fails with ConflictError
\* when no reception is in progress and with NotFoundError when the
\* reception in progress holds no product; no product changes.
C10_DeleteErrorKinds ==
    (last.op = "DeleteLastProduct" /\ \E p \in pvz : p.id = last.pvz)
    => /\ OpenOf(last.receptions, last.pvz) = {}
          => /\ ErrorKind(last.err) = "ConflictError"
             /\ products = last.products
       /\ (/\ OpenOf(last.receptions, last.pvz) # {}
           /\ OpenProducts(last.receptions, last.products, last.pvz) = {})
          => /\ ErrorKind(last.err) = "NotFoundError"
             /\ products = last.products

\* C11: AddProduct with a label of product_types on a stored pickup point
\* that has no reception in progress fails with ConflictError and stores no
\* product; a product that is stored belongs to a reception that was in
\* progress when the call found it.
C11_AddWithoutOpenConflict ==
    last.op = "AddProduct"
    => /\ (/\ last.arg \in product_types
           /\ \E p \in pvz : p.id = last.pvz
           /\ OpenOf(last.receptions, last.pvz) = {})
          => /\ ErrorKind(last.err) = "ConflictError"
             /\ products = last.products
       /\ \A row \in last.ret :
             \E r \in OpenOf(last.receptions, last.pvz) :
                r.id = row.reception_id

\* C12: AddProduct with a type string that is no label of product_types
\* (the empty string of a missing type included) fails with ValidationError
\* and stores no product, with or without a reception in progress.
C12_UnknownTypeValidationError ==
    (last.op = "AddProduct" /\ last.arg \notin product_types)
    => /\ ErrorKind(last.err) = "ValidationError"
       /\ last.ret = {}
       /\ products = last.products

\* C13: AddProduct with a label of product_types on a pickup point whose
\* reception is in progress succeeds and stores exactly one product, under a
\* fresh id, of the type given, in the reception in progress (not in a
\* closed one); it returns that product and changes no reception and no
\* other product.
C13_AddStoresOneProduct ==
    (/\ last.op = "AddProduct"
     /\ last.arg \in product_types
     /\ OpenOf(last.receptions, last.pvz) # {})
    => /\ last.err = NoErr
       /\ \E row \in products :
             /\ last.ret = {row}
             /\ \A o \in last.products : o.id # row.id
             /\ products = last.products \cup {row}
             /\ row.product_type = last.arg
             /\ \E r \in OpenOf(last.receptions, last.pvz) :
                   r.id = row.reception_id
       /\ receptions = last.receptions

\* a product of the second type was stored in the reception opened after the
\* earlier reception of the pickup point, which holds a product, was closed
C13_Witness ==
    /\ last.op = "AddProduct"
    /\ last.err = NoErr
    /\ last.arg = "obuv"
    /\ \E row \in last.ret, c \in ReceptionsOf(receptions, last.pvz) :
          /\ c.activity = FALSE
          /\ c.id # row.reception_id
          /\ ProductsOf(products, c.id) # {}

\* C14: OpenReception on a stored pickup point without a reception in
\* progress succeeds: it stores exactly one reception, under a fresh id, of
\* that pickup point, in progress and without products, returns it, and
\* changes no other reception and no product.
C14_OpenStoresOneReception ==
    (/\ last.op = "OpenReception"
     /\ \E p \in pvz : p.id = last.pvz
     /\ OpenOf(last.receptions, last.pvz) = {})
    => /\ last.err = NoErr
       /\ \E row \in receptions :
             /\ last.ret = {row}
             /\ \A o \in last.receptions : o.id # row.id
             /\ receptions = last.receptions \cup {row}
             /\ row.pvz_id = last.pvz
             /\ row.activity = TRUE
             /\ ProductsOf(products, row.id) = {}
       /\ products = last.products

\* C15: a successful CloseLastReception changes exactly one reception, the
\* one it returns (returned closed): its activity goes from true to false;
\* every other reception, of this and of other pickup points, and every
\* product stay as they were.
C15_CloseChangesOneReception ==
    (last.op = "CloseLastReception" /\ last.err = NoErr)
    => /\ \E r \in OpenOf(last.receptions, last.pvz) :
             /\ last.ret = {[r EXCEPT !.activity = FALSE]}
             /\ receptions =
                   (last.receptions \ {r}) \cup {[r EXCEPT !.activity = FALSE]}
       /\ products = last.products

\* C16: with calls that overlap, the products of a reception that is closed
\* (activity = false) never change: no step adds a product to it or removes
\* one from it.
C16_NoProductChangeAfterClose ==
    [][\A r \in receptions :
          r.activity = FALSE
          => ProductsOf(products', r.id) = ProductsOf(products, r.id)]_vars

\* the role claim of the token of the last request
TokenRole == http.header[2].role

\* C17: POST /pvz with a token of role employee, signed by dummyLogin or by
\* login, is answered 403 whatever the body, and stores no pickup point.
C17_EmployeeCannotCreatePvz ==
    (/\ http.endpoint = "POST /pvz"
     /\ Len(http.header) = 2
     /\ TokenRole = Employee)
    => /\ http.status = 403
       /\ http.store => (last.op = "CreatePvz" /\ last.err # NoErr)

\* the endpoints of the four operations on receptions and products
LifecycleEndpoints ==
    {"receptions", "close_last_reception", "products", "delete_last_product"}

\* C18: a request to open or close a reception or to add or delete a
\* product with a token of role moderator is refused by the handlers (403)
\* without a call of the storage layer.
C18_ModeratorDeniedLifecycle ==
    (/\ http.endpoint \in LifecycleEndpoints
     /\ Len(http.header) = 2
     /\ TokenRole = Moderator)
    => /\ http.status = 403
       /\ ~http.store

\* the endpoints NewServer wraps in authHandler
ProtectedEndpoints ==
    {"POST /pvz", "GET /pvz"} \cup LifecycleEndpoints

\* C19: a request to a protected endpoint without Authorization header,
\* with a header that does not split in two, with a token the service did
\* not sign or with a token whose exp has passed is answered 401; no call of
\* the storage layer is made and no table changes.
C19_BadTokenUnauthorized ==
    [][(/\ http' # http
        /\ http'.endpoint \in ProtectedEndpoints
        /\ http'.header \in {<<>>} \cup MalformedHeaders
              \cup TokenHeaders(InvalidTokens \cup ExpiredTokens))
       => (/\ http'.status = 401
           /\ ~http'.store
           /\ UNCHANGED <<tables, last>>)]_vars

\* a request to add a product at a stored pickup point, sent with a token of
\* dummyLogin whose exp has passed, was answered 401
C19_Witness ==
    /\ http.endpoint = "products"
    /\ http.status = 401
    /\ Len(http.header) = 2
    /\ http.header[2].key = secretKey
    /\ http.header[2].jwt
    /\ http.header[2].exp <= http.at
    /\ pvz # {}

\* C20: whether OpenReception and AddProduct succeed does not depend on the
\* caller identity handed to them: on every pickup point a caller may name
\* they succeed for a registered caller exactly if they succeed for the
\* absent identity "" (CloseLastReception and DeleteLastProduct take none).
C20_IdentityAgnostic ==
    \A a \in Authors, p \in PvzArgs :
       /\ (OpenReceptionErr(a, p) = NoErr)
          <=> (OpenReceptionErr("", p) = NoErr)
       /\ \A t \in ProductArgs :
             (AddProductErr(p, a, t) = NoErr)
             <=> (AddProductErr(p, "", t) = NoErr)

\* the concatenation of the sequences of a sequence
RECURSIVE Concat(_)
Concat(ss) == IF ss = <<>> THEN <<>> ELSE Head(ss) \o Concat(Tail(ss))

\* the receptions nested in a listing, in the order of the listing
ListedReceptions(ret) == Concat([n \in DOMAIN ret |-> ret[n].Receptions])

\* the products nested in a listing, in the order of the listing
ListedProducts(ret) ==
    LET recs == ListedReceptions(ret)
    IN  Concat([k \in DOMAIN recs |-> recs[k].Products])

\* the last call was a GetPvzInfo that returned a listing
Listed == last.op = "GetPvzInfo" /\ last.err = NoErr

\* the rows of the join whose product was created within the dates of the
\* last call, both included
InWindow ==
    {row \in JoinRows :
        /\ last.arg.startDate[1] <= row.product_datetime
        /\ row.product_datetime <= last.arg.endDate[1]}

\* C21: the products nested in the result of GetPvzInfo are the rows at the
\* positions limit*(page-1)+1 .. limit*page of a sorted rowset of the
\* products created within the dates; their number is
\* min(limit, max(0, N - limit*(page-1))), N the number of such products.
C21_PageWindow ==
    Listed =>
    LET off == last.arg.limit * (last.arg.page - 1)
        N == Cardinality(InWindow)
        rest == IF N - off > 0 THEN N - off ELSE 0
        want == IF last.arg.limit < rest THEN last.arg.limit ELSE rest
        listed == ListedProducts(last.ret)
    IN  /\ Len(listed) = want
        /\ \E s \in Orderings(InWindow) :
              /\ \A i, j \in DOMAIN s : i < j => ~SortsBefore(s[j], s[i])
              /\ \A i \in 1..want :
                    listed[i].ProductId = s[off + i].product_id

\* three products of two pickup points lie within the dates, and the first
\* page of two rows was listed
C21_Witness ==
    /\ Listed
    /\ Cardinality(InWindow) = 3
    /\ Cardinality({row.pvz_id : row \in InWindow}) = 2
    /\ last.arg.page = 1 /\ last.arg.limit = 2
    /\ Len(ListedProducts(last.ret)) = 2

\* the pickup point that owns the reception with the given id
OwnerOf(receptionId) ==
    (CHOOSE r \in receptions : r.id = receptionId).pvz_id

\* C22: every entry of the result of GetPvzInfo carries the id of the pickup
\* point that owns the receptions nested under it, also when the page holds
\* more than one pickup point.
C22_EntryOwnsReceptions ==
    Listed =>
    \A n \in DOMAIN last.ret :
       \A k \in DOMAIN last.ret[n].Receptions :
          /\ last.ret[n].PvzId = OwnerOf(last.ret[n].Receptions[k].ReceptionId)
          /\ last.ret[n].PvzId = last.ret[n].Receptions[k].PvzId

\* the pickup points whose receptions are nested under entry n of a listing
OwnersIn(ret, n) ==
    {OwnerOf(ret[n].Receptions[k].ReceptionId) :
        k \in DOMAIN ret[n].Receptions}

\* C23: in one result of GetPvzInfo no pickup point has two entries, no
\* reception is nested twice, and every product is nested under its own
\* reception, for every content of the tables, equal registration dates of
\* distinct pickup points or receptions included.
C23_GroupingRebuildsTree ==
    Listed =>
    LET recs == ListedReceptions(last.ret)
    IN  /\ \A n, m \in DOMAIN last.ret :
              n # m => OwnersIn(last.ret, n) \cap OwnersIn(last.ret, m) = {}
        /\ \A i, j \in DOMAIN recs :
              i # j => recs[i].ReceptionId # recs[j].ReceptionId
        /\ \A i \in DOMAIN recs :
              \A j \in DOMAIN recs[i].Products :
                 \E x \in products :
                    /\ x.id = recs[i].Products[j].ProductId
                    /\ x.reception_id = recs[i].ReceptionId

\* C24: the result of GetPvzInfo is ordered newest first at every level:
\* the entries by the registration date of the pickup point, the receptions
\* of an entry by their registration date, the products of a reception by
\* theirs; none comes before one that is newer.
C24_NewestFirst ==
    Listed =>
    /\ \A n, m \in DOMAIN last.ret :
          n < m => last.ret[n].RegistrationDate >= last.ret[m].RegistrationDate
    /\ \A n \in DOMAIN last.ret :
          LET recs == last.ret[n].Receptions
          IN  /\ \A i, j \in DOMAIN recs :
                    i < j => recs[i].DateTime >= recs[j].DateTime
              /\ \A i \in DOMAIN recs :
                    \A j, k \in DOMAIN recs[i].Products :
                       j < k => recs[i].Products[j].DateTime
                                   >= recs[i].Products[k].DateTime

\* a listing of two pickup points of different dates, with a reception that
\* holds products of different dates
C24_Witness ==
    /\ Listed
    /\ Len(last.ret) = 2
    /\ last.ret[1].RegistrationDate > last.ret[2].RegistrationDate
    /\ \E n \in DOMAIN last.ret :
          \E i \in DOMAIN last.ret[n].Receptions :
             LET ps == last.ret[n].Receptions[i].Products
             IN  Len(ps) = 2 /\ ps[1].DateTime > ps[2].DateTime

\* the ids of the products nested in a listing
ListedIds(ret) ==
    {ListedProducts(ret)[i].ProductId : i \in DOMAIN ListedProducts(ret)}

\* C25: when the page takes every row, a product is in the result of
\* GetPvzInfo exactly if startDate <= its registration date <= endDate,
\* both bounds included.
C25_DatesInclusive ==
    (/\ Listed
     /\ last.arg.page = 1
     /\ last.arg.limit >= Cardinality(last.products))
    => ListedIds(last.ret)
          = {x.id : x \in {y \in last.products :
                /\ last.arg.startDate[1] <= y.registration_date
                /\ y.registration_date <= last.arg.endDate[1]}}

\* a listing with startDate = endDate that holds a product of that date and
\* leaves out a product of another date
C25_Witness ==
    /\ Listed
    /\ last.arg.page = 1
    /\ last.arg.limit >= Cardinality(last.products)
    /\ last.arg.startDate = last.arg.endDate
    /\ \E x \in last.products :
          /\ x.registration_date = last.arg.endDate[1]
          /\ x.id \in ListedIds(last.ret)
    /\ \E x \in last.products : x.id \notin ListedIds(last.ret)

\* the rows of the join at the positions of the page of the last call, the
\* products being those nested in its result
InPage == {row \in InWindow : row.product_id \in ListedIds(last.ret)}

\* C26: a pickup point or reception is in the result of GetPvzInfo only with
\* a product of its own that is stored, lies within the dates and is nested
\* in this result; so a pickup point without such a product is not
\* returned, and a product removed by DeleteLastProduct is in no later
\* result.
C26_OnlyWithListedProduct ==
    Listed =>
    /\ ListedIds(last.ret) \subseteq {row.product_id : row \in InWindow}
    /\ products = last.products
    /\ \A n \in DOMAIN last.ret :
          /\ Len(last.ret[n].Receptions) > 0
          /\ \E row \in InPage : row.pvz_id = last.ret[n].PvzId
          /\ \A k \in DOMAIN last.ret[n].Receptions :
                /\ Len(last.ret[n].Receptions[k].Products) > 0
                /\ \A j \in DOMAIN last.ret[n].Receptions[k].Products :
                      \E row \in InPage :
                         /\ row.product_id
                              = last.ret[n].Receptions[k].Products[j].ProductId
                         /\ row.reception_id
                              = last.ret[n].Receptions[k].ReceptionId

\* a listing that is not empty, made when a product had been removed, a
\* pickup point held no product and a stored product lay outside the dates
C26_Witness ==
    /\ Listed
    /\ Len(last.ret) > 0
    /\ Cardinality(products) < idgen.products
    /\ \E z \in pvz : \A row \in JoinRows : row.pvz_id # z.id
    /\ JoinRows # InWindow

\* C27: GetPvzInfo with page <= 0 or limit <= 0 fails with the
\* ValidationError "invalid arguments", returns no entry and leaves the
\* tables as they were, whatever they hold.
C27_BadPageValidationError ==
    (/\ last.op = "GetPvzInfo"
     /\ (last.arg.page <= 0 \/ last.arg.limit <= 0))
    => /\ ErrorKind(last.err) = "ValidationError"
       /\ last.ret = <<>>
       /\ receptions = last.receptions
       /\ products = last.products

\* GetPvzInfo was called with page 0 while a product lay within the dates
C27_Witness ==
    /\ last.op = "GetPvzInfo"
    /\ last.arg.page = 0
    /\ last.arg.limit > 0
    /\ InWindow # {}

\* C28: a GetPvzInfo call that follows a GetPvzInfo call with the same
\* arguments, the tables unchanged in between, returns the same entries in
\* the same order, and the call changes no table.
C28_ListingDeterministic ==
    [][(/\ last.op = "GetPvzInfo"
        /\ last'.op = "GetPvzInfo"
        /\ last'.arg = last.arg)
       => (/\ last'.err = last.err
           /\ last'.ret = last.ret
           /\ UNCHANGED tables)]_vars

\* C29: GetOnlyPvzList returns every stored pickup point (none is ever
\* deleted) exactly once, with its id, registration date and city and
\* without receptions, whether or not it has receptions or products; the
\* response of GetPVZList holds the same pickup points.
C29_AllPvzOnce ==
    last.op = "GetOnlyPvzList"
    => /\ last.err = NoErr
       /\ Len(last.ret) = Cardinality(pvz)
       /\ \A z \in pvz :
             \E n \in DOMAIN last.ret :
                /\ last.ret[n].PvzId = z.id
                /\ last.ret[n].RegistrationDate = z.registration_date
                /\ last.ret[n].City = z.city
                /\ last.ret[n].Receptions = <<>>
                /\ GetPVZList(last.ret)[n]
                     = [Id |-> z.id,
                        RegistrationDate |-> z.registration_date,
                        City |-> z.city]
       /\ pvz # {} \/ last.ret = <<>>

\* GetOnlyPvzList was called with two pickup points stored, one with a
\* product and one without reception
C29_Witness ==
    /\ last.op = "GetOnlyPvzList"
    /\ Cardinality(pvz) = 2
    /\ \E z \in pvz : \E row \in JoinRows : row.pvz_id = z.id
    /\ \E z \in pvz : ReceptionsOf(receptions, z.id) = {}

\* C30: CreateUser with an email that a row of clients holds fails with
\* ConflictError and leaves clients as it was: the password and the roles
\* of the account stay those of its registration.
C30_DuplicateEmailConflict ==
    [][(/\ last' # last
        /\ last'.op = "CreateUser"
        /\ \E c \in clients : c.email = last'.arg)
       => (/\ ErrorKind(last'.err) = "ConflictError"
           /\ last'.ret = {}
           /\ clients' = clients)]_vars

\* C31: LoginUser fails with the AuthError LoginFailed "invalid email or
\* password" both for an email no row of clients holds and for a password
\* the stored hash does not verify; the two errors are equal.
C31_UniformLoginError ==
    /\ \A e \in UserEmails, pw \in UserPasswords :
          LET known == \E c \in clients : c.email = e
              verifies == \E c \in clients :
                             /\ c.email = e
                             /\ ValidatePassword(pw, c.password_hash)
          IN  /\ (~known \/ ~verifies) <=> LoginUserErr(e, pw) # NoErr
              /\ LoginUserErr(e, pw) # NoErr
                 => /\ ErrorKind(LoginUserErr(e, pw)) = "AuthError"
                    /\ LoginUserErr(e, pw)
                         = LoginFailed("invalid email or password")
    /\ last.op = "LoginUser"
       => /\ last.err \in {NoErr, LoginFailed("invalid email or password")}
          /\ last.err # NoErr => last.ret = {}

\* LoginUser failed for a registered email, while another email is unknown
C31_Witness ==
    /\ last.op = "LoginUser"
    /\ last.err # NoErr
    /\ \E c \in clients : c.email = last.arg
    /\ \E e \in UserEmails : \A c \in clients : c.email # e

\* C32: after a CreateUser that succeeded, LoginUser with the email and the
\* password of the registration succeeds and returns the row CreateUser
\* returned (id, email, roles), LoginUser with another password fails, and
\* no step changes or removes a row of clients.
C32_RegisterLoginRoundTrip ==
    /\ [](/\ (last.op = "CreateUser" /\ last.err = NoErr)
             => \A row \in last.ret :
                   /\ row \in clients
                   /\ \A pw \in UserPasswords :
                         /\ row.password_hash = HashPassword(pw)
                            => LoginUserErr(row.email, pw) = NoErr
                         /\ row.password_hash # HashPassword(pw)
                            => LoginUserErr(row.email, pw) # NoErr
          /\ (last.op = "LoginUser" /\ last.err = NoErr)
             => /\ Cardinality(last.ret) = 1
                /\ \A row \in last.ret :
                      row \in clients /\ row.email = last.arg)
    /\ [][\A c \in clients : c \in clients']_vars

\* a login succeeded for an account, and a login with the other password
\* fails for it
C32_Witness ==
    /\ last.op = "LoginUser"
    /\ last.err = NoErr
    /\ \E pw \in UserPasswords : LoginUserErr(last.arg, pw) # NoErr

\* the four operations on receptions and products
LifecycleOps ==
    {"OpenReception", "CloseLastReception", "AddProduct", "DeleteLastProduct"}

\* C33: a call of OpenReception, CloseLastReception, AddProduct or
\* DeleteLastProduct that returns an error returns no row and leaves every
\* table as it was (pickup points, receptions with their activity,
\* products); a call that returns no error has changed a table.
C33_ErrorLeavesStore ==
    [][(last' # last /\ last'.op \in LifecycleOps)
       => (/\ last'.err # NoErr => (last'.ret = {} /\ UNCHANGED tables)
           /\ last'.err = NoErr
              => /\ last'.ret # {}
                 /\ <<receptions, products>>' # <<receptions, products>>)]_vars

\* a call on a pickup point with a reception and a product returned an error
C33_Witness ==
    /\ last.op \in LifecycleOps
    /\ last.err # NoErr
    /\ \E r \in receptions : r.pvz_id = last.pvz
    /\ products # {}

\* C34: POST /pvz by a client with a valid token and a city that is none of
\* the three, the empty text of a missing city included, is answered with
\* 400 without a call of the store, so no pickup point is stored; every
\* stored pickup point has one of the three cities.
C34_CityValidated ==
    /\ [](\A p \in pvz : p.city \in cities)
    /\ [][http'.endpoint = "POST /pvz"
          => \A h \in TokenHeaders(ValidTokens), body \in PvzBodies :
                 (body.City \notin cities /\ pvzPostHandler(h, body))
                 => (/\ http'.status = 400
                     /\ ~http'.store
                     /\ UNCHANGED <<tables, last>>)]_vars

\* a client with a valid token was answered 400 on POST /pvz next to a
\* stored pickup point
C34_Witness ==
    /\ http.endpoint = "POST /pvz"
    /\ http.status = 400
    /\ http.header \in TokenHeaders(ValidTokens)
    /\ pvz # {}

\* C38: OpenReception by a registered user at a stored pickup point, the
\* id of which CreatePvz generated or took from its caller, succeeds when
\* the pickup point has no reception in progress.
C38_StoredPvzUsable ==
    (/\ last.op = "OpenReception"
     /\ \E p \in pvz : p.id = last.pvz
     /\ \E c \in clients : c.id = last.author
     /\ ~\E r \in last.receptions : r.pvz_id = last.pvz /\ r.activity)
    => (/\ last.err = NoErr
        /\ \E r \in receptions : r.pvz_id = last.pvz /\ r.activity)

\* C36: no step removes or changes a row of pvz (id, city, creation time),
\* and no step removes a reception or changes its id, pickup point or
\* creation time; its activity never turns from false to true.
C36_RowsKept ==
    [][/\ \A p \in pvz : p \in pvz'
       /\ \A r \in receptions : \E q \in receptions' :
              /\ q.id = r.id
              /\ q.pvz_id = r.pvz_id
              /\ q.registration_date = r.registration_date
              /\ q.activity => r.activity]_vars

\* two pickup points and two receptions, one closed by the last call
C36_Witness ==
    /\ last.op = "CloseLastReception"
    /\ last.err = NoErr
    /\ Cardinality(pvz) = 2
    /\ Cardinality(receptions) = 2

\* C37: in every state each reception names a stored pickup point and each
\* product a stored reception; OpenReception for an id that matches IsUUID
\* and is the id of no pickup point returns an error and stores no
\* reception.
C37_ReferentialIntegrity ==
    /\ \A r \in receptions : \E p \in pvz : p.id = r.pvz_id
    /\ \A x \in products : \E r \in receptions : r.id = x.reception_id
    /\ (/\ last.op = "OpenReception"
        /\ IsUUID(last.pvz)
        /\ ~\E p \in pvz : p.id = last.pvz)
       => (last.err # NoErr /\ last.ret = {} /\ receptions = last.receptions)

\* a registered user asked for a reception at a well-formed id that no
\* pickup point has, next to stored receptions and products
C37_Witness ==
    /\ last.op = "OpenReception"
    /\ last.pvz = StrangerUuid
    /\ \E c \in clients : c.id = last.author
    /\ receptions # {}
    /\ products # {}

\* C39: when GetPvzInfo for page 1 is followed by GetPvzInfo for page 2
\* with the same dates and limit, on the same tables, no product is on both
\* pages, and when the two pages have room for every product created
\* within the dates, each such product is on one of them.
C39_PagesPartition ==
    [][(/\ Listed
        /\ last.arg.page = 1
        /\ last'.op = "GetPvzInfo" /\ last'.err = NoErr
        /\ last'.arg.page = 2
        /\ last'.arg.limit = last.arg.limit
        /\ last'.arg.startDate = last.arg.startDate
        /\ last'.arg.endDate = last.arg.endDate)
       => (/\ ListedIds(last.ret) \cap ListedIds(last'.ret) = {}
           /\ Cardinality(InWindow) <= 2 * last.arg.limit
              => ListedIds(last.ret) \cup ListedIds(last'.ret)
                    = {row.product_id : row \in InWindow})]_vars

\* C35: a call of DeleteLastProduct that returns nil has removed a product,
\* also when another call of DeleteLastProduct on the same pickup point
\* runs its statements in between; so two calls that both return nil have
\* removed two products.
C35_SuccessRemovesProduct ==
    [][\A i \in Instances :
          (calls[i].pc = "delete" /\ calls'[i] = Idle)
          => \E x \in products : x \notin products']_vars

\* ListenAndServe has received an error and is past err := <-errCh
Received == serve.pc \notin {"goProgram", "goMetrics", "receive"}

\* C40: ListenAndServe starts the goroutines of both listeners before it
\* waits; the error it receives is the one sent first, it is not nil and it
\* is what the function returns; before it returns it has started the
\* shutdown of both servers, and starts none without an error; a listener
\* that has stopped can always send its error, so it ends (or the process
\* does), and once a listener has stopped the function returns.
C40_ListenAndServe ==
    /\ [](/\ serve.pc \notin {"goProgram", "goMetrics"}
             => \A s \in Servers : serve.listen[s].pc # "none"
          /\ Received
             => /\ serve.err # NoErr
                /\ \E s \in Servers : /\ serve.listen[s].pc = "done"
                                      /\ serve.listen[s].err = serve.err
          /\ ~Received => \A s \in Servers : serve.shutdown[s] = "none"
          /\ serve.pc \in {"returned", "exit"}
             => /\ serve.returned = serve.err
                /\ \A s \in Servers : serve.shutdown[s] # "none"
          /\ \A s \in Servers :
                (Running /\ serve.listen[s].pc = "send") => ENABLED Send(s))
    /\ [][/\ (serve.pc = "receive" /\ serve'.pc # "receive")
             => serve'.err = Head(serve.errCh)
          /\ \A s \in Servers :
                (serve.listen[s].pc = "send" /\ serve'.listen[s].pc = "done")
                => serve'.errCh = Append(serve.errCh, serve.listen[s].err)
         ]_vars
    /\ \A s \in Servers :
          (serve.listen[s].pc = "send")
             ~> (serve.listen[s].pc = "done" \/ ~Running)
    /\ (\E s \in Servers : serve.listen[s].pc = "send")
          ~> (serve.pc \in {"returned", "exit"})

\* ListenAndServe has returned the error of one listener while the error
\* of the other, stopped by Shutdown, lies in the channel
C40_Witness ==
    /\ serve.pc = "returned"
    /\ \A s \in Servers : serve.listen[s].pc = "done"
    /\ serve.returned \in ListenErrors
    /\ serve.errCh = <<ErrServerClosed>>

====
